---- MODULE Spec2Model ----
(***************************************************************************)
(* SmallerVec<T, Limit>: a growable array whose len and cap are kept in a  *)
(* narrow unsigned integer (src/src/lib.rs), the Int trait it computes     *)
(* with (src/src/int_trait.rs) and its consuming iterator IntoIter<T>.     *)
(*                                                                         *)
(* The heap is a set of blocks, each a sequence of slots.  A slot holds an *)
(* element or Uninit (never written, or moved out by ptr::read).  Reading  *)
(* an Uninit slot by value yields any element.  An access outside a live   *)
(* block (index past its size, a freed block, the dangling handle) is      *)
(* undefined behaviour: the read value is indeterminate, the write is      *)
(* lost, and the process may also crash.  A handle whose block was freed   *)
(* is recorded as Stale in whoever still holds it (the holder's code       *)
(* cannot tell), so that the block's name can be handed out again.         *)
(* Integer overflow of the plain + and - of Int panics in a debug build    *)
(* and wraps in a release build.  The allocator is assumed not to run out  *)
(* of memory.                                                              *)
(***************************************************************************)
EXTENDS Integers, Sequences, FiniteSets, TLC

\* Limit::MAX of the chosen narrow width, scaled down (u8 has 255).
LimitMAX == 3
\* size_of::<T>() of the element type the container is instantiated with.
SizeOfT == 2048
\* Number of heap blocks the allocator can hand out.
MaxBlocks == 2

ZERO == 0
ONE == 1
\* NonNull::dangling(): the handle of a container that owns no block.
Dangling == 0
\* Content of a slot that holds no initialized element.
Uninit == 0

Values == {1, 2}
Vecs == {1, 2}
Blocks == 1..MaxBlocks
\* the handle of a block that was freed
Stale == MaxBlocks + 1
Slices == {<<1>>, <<2, 1>>}

\* inst is the instantiation SmallerVec<T, Limit>: MAX is Limit::MAX and size
\* is size_of::<T>()
VARIABLES inst, build, vec, it, heap, last

vars == <<inst, build, vec, it, heap, last>>

----------------------------------------------------------------------------
(* int_trait.rs *)

as_usize(x) == x

from_usize(val) == val % (inst.MAX + 1)

SubOverflows(a, b) == a < b

AddOverflows(a, b) == a + b > inst.MAX

\* self - rhs, as a release build computes it
sub(a, b) == (a - b) % (inst.MAX + 1)

\* self + rhs, as a release build computes it
add(a, b) == (a + b) % (inst.MAX + 1)

saturating_add(a, b) == IF a + b > inst.MAX THEN inst.MAX ELSE a + b

----------------------------------------------------------------------------
(* The heap: alloc / realloc / dealloc and raw pointer accesses *)

UnusedBlock == [status |-> "unused", mem |-> <<>>]

Live(h, p) == p \in Blocks /\ h[p].status = "live"

Size(h, p) == IF Live(h, p) THEN Len(h[p].mem) ELSE 0

InBlock(h, p, i) == i >= 0 /\ i < Size(h, p)

Slot(h, p, i) == IF InBlock(h, p, i) THEN h[p].mem[i + 1] ELSE Uninit

\* the violations of one typed read of slot i through handle p
ReadViol(h, p, i) ==
    IF ~InBlock(h, p, i) THEN {"oob"}
    ELSE IF h[p].mem[i + 1] = Uninit THEN {"uninit"} ELSE {}

WriteViol(h, p, i) == IF InBlock(h, p, i) THEN {} ELSE {"oob"}

\* core::ptr::read: the values the read can produce
PtrRead(h, p, i) == IF Slot(h, p, i) = Uninit THEN Values ELSE {Slot(h, p, i)}

\* core::ptr::write
PtrWrite(h, p, i, x) ==
    IF InBlock(h, p, i) THEN [h EXCEPT ![p].mem[i + 1] = x] ELSE h

\* the slot an element was read out of no longer holds an element
MoveOut(h, p, i) == PtrWrite(h, p, i, Uninit)

\* ptr::copy(base+src, base+dst, count): memmove; the source slots that are
\* not overwritten no longer hold an element
PtrCopy(h, p, src, dst, count) ==
    IF ~Live(h, p) THEN h
    ELSE [h EXCEPT ![p].mem =
            [k \in 1..Len(@) |->
                IF k - 1 >= dst /\ k - 1 < dst + count
                THEN Slot(h, p, src + (k - 1 - dst))
                ELSE IF k - 1 >= src /\ k - 1 < src + count
                THEN Uninit
                ELSE @[k]]]

CopyViol(h, p, src, dst, count) ==
    UNION {(IF InBlock(h, p, src + j)
            THEN (IF Slot(h, p, src + j) = Uninit THEN {"uninit"} ELSE {})
            ELSE {"oob"})
           \cup WriteViol(h, p, dst + j) : j \in 0..(count - 1)}

FreshBlocks(h) == {b \in Blocks : h[b].status = "unused"}

NewBlock(h) == CHOOSE b \in FreshBlocks(h) : \A o \in FreshBlocks(h) : b <= o

UninitMem(n) == [k \in 1..n |-> Uninit]

\* the first n slots of mem, padded with uninitialized slots
Resize(mem, n) == [k \in 1..n |-> IF k <= Len(mem) THEN mem[k] ELSE Uninit]

----------------------------------------------------------------------------
(* Outcomes of an operation *)

Out(c, h, ret, status, viol) ==
    [c |-> c, h |-> h, ret |-> ret, status |-> status, viol |-> viol]

Fatal(viol) == viol \cap {"oob", "double_free"} # {}

\* an access outside a live block may also end the process
Crashes(c, h, outs) ==
    {Out(c, h, <<>>, "crash", o.viol) : o \in {x \in outs : x.status # "crash" /\ Fatal(x.viol)}}

----------------------------------------------------------------------------
(* SmallerVec: lib.rs *)

FIRST_ALLOC_SIZE_swapped == IF inst.size = 1 THEN 4 ELSE IF inst.size <= 1024 THEN 8 ELSE 1

FIRST_ALLOC_SIZE == IF inst.size = 1 THEN 8 ELSE IF inst.size <= 1024 THEN 4 ELSE 1

new_unallocated == [st |-> "live", ptr |-> Dangling, len |-> ZERO, cap |-> ZERO]

new == new_unallocated

\* a container that was never made, was moved into an iterator, or was dropped
Gone(st) == [st |-> st, ptr |-> Dangling, len |-> ZERO, cap |-> ZERO]

capacity(c) == as_usize(c.cap)

len(c) == as_usize(c.len)

is_empty(c) == len(c) = 0

\* mutant: the doubling wraps instead of saturating
growth_factor_wrapping(c) == add(c.cap, c.cap)

growth_factor(c) == saturating_add(c.cap, c.cap)

\* alloc::realloc(old_ptr, old_layout, new_size): the block grows in place or
\* moves; a handle whose block was already freed is undefined behaviour
realloc(c, h, new_cap) ==
    IF Live(h, c.ptr)
    THEN {Out([c EXCEPT !.cap = new_cap],
              [h EXCEPT ![c.ptr].mem = Resize(@, as_usize(new_cap))],
              <<>>, "ok", {})}
         \cup
         (IF FreshBlocks(h) = {} THEN {}
          ELSE {Out([c EXCEPT !.ptr = NewBlock(h), !.cap = new_cap],
                    [h EXCEPT ![NewBlock(h)] =
                                  [status |-> "live",
                                   mem |-> Resize(h[c.ptr].mem, as_usize(new_cap))],
                              ![c.ptr] = UnusedBlock],
                    <<>>, "ok", {})})
    ELSE {Out(c, h, <<>>, "crash", {"double_free"})}
         \cup
         (IF FreshBlocks(h) = {} THEN {}
          ELSE {Out([c EXCEPT !.ptr = NewBlock(h), !.cap = new_cap],
                    [h EXCEPT ![NewBlock(h)] =
                                  [status |-> "live",
                                   mem |-> UninitMem(as_usize(new_cap))]],
                    <<>>, "ok", {"double_free"})})

\* mutant: grow without the check against Limit::MAX
grow_unchecked(c, h) ==
    IF c.cap = ZERO
    THEN IF FreshBlocks(h) = {} THEN {}
         ELSE {Out([c EXCEPT !.ptr = NewBlock(h),
                             !.cap = from_usize(FIRST_ALLOC_SIZE)],
                   [h EXCEPT ![NewBlock(h)] =
                                 [status |-> "live",
                                  mem |-> UninitMem(FIRST_ALLOC_SIZE)]],
                   <<>>, "ok", {})}
    ELSE realloc(c, h, growth_factor(c))

grow(c, h) ==
    IF c.cap = inst.MAX
    THEN {Out(c, h, <<>>, "capacity overflow", {})}
    ELSE IF c.cap = ZERO
    THEN IF FreshBlocks(h) = {} THEN {}
         ELSE {Out([c EXCEPT !.ptr = NewBlock(h),
                             !.cap = from_usize(FIRST_ALLOC_SIZE)],
                   [h EXCEPT ![NewBlock(h)] =
                                 [status |-> "live",
                                  mem |-> UninitMem(FIRST_ALLOC_SIZE)]],
                   <<>>, "ok", {})}
    ELSE realloc(c, h, growth_factor(c))

push(c, h, value) ==
    LET G == IF c.len = c.cap THEN grow(c, h) ELSE {Out(c, h, <<>>, "ok", {})}
        body(g) ==
            LET h1 == PtrWrite(g.h, g.c.ptr, as_usize(g.c.len), value)
                v == g.viol \cup WriteViol(g.h, g.c.ptr, as_usize(g.c.len))
            IN  IF build = "debug" /\ AddOverflows(g.c.len, ONE)
                THEN Out(g.c, h1, <<>>, "arithmetic overflow", v)
                ELSE Out([g.c EXCEPT !.len = add(@, ONE)], h1, <<>>, "ok", v)
        outs == {IF g.status # "ok" THEN g ELSE body(g) : g \in G}
    IN  outs \cup Crashes(c, h, outs)

pop(c, h) ==
    IF c.len = ZERO
    THEN {Out(c, h, <<>>, "ok", {})}
    ELSE LET n == sub(c.len, ONE)
             outs == {Out([c EXCEPT !.len = n], MoveOut(h, c.ptr, as_usize(n)),
                          <<r>>, "ok", ReadViol(h, c.ptr, as_usize(n)))
                      : r \in PtrRead(h, c.ptr, as_usize(n))}
         IN  outs \cup Crashes(c, h, outs)

insert(c, h, index, element) ==
    LET G == IF c.cap = c.len THEN grow(c, h) ELSE {Out(c, h, <<>>, "ok", {})}
        body(g) ==
            LET n == len(g.c)
                h1 == PtrCopy(g.h, g.c.ptr, index, index + 1, n - index)
                h2 == PtrWrite(h1, g.c.ptr, index, element)
                v == g.viol \cup CopyViol(g.h, g.c.ptr, index, index + 1, n - index)
                            \cup WriteViol(h1, g.c.ptr, index)
            IN  IF n < index
                THEN Out(g.c, g.h, <<>>, "insertion index", g.viol)
                ELSE IF build = "debug" /\ AddOverflows(g.c.len, ONE)
                THEN Out(g.c, h2, <<>>, "arithmetic overflow", v)
                ELSE Out([g.c EXCEPT !.len = add(@, ONE)], h2, <<>>, "ok", v)
        outs == {IF g.status # "ok" THEN g ELSE body(g) : g \in G}
    IN  outs \cup Crashes(c, h, outs)

remove(c, h, index) ==
    LET n == len(c)
        src == index + (index + 1)
        h1 == MoveOut(h, c.ptr, index)
        h2 == PtrCopy(h1, c.ptr, src, index, n - index)
        v == ReadViol(h, c.ptr, index) \cup CopyViol(h1, c.ptr, src, index, n - index)
        outs == {Out([c EXCEPT !.len = sub(@, ONE)], h2, <<r>>, "ok", v)
                 : r \in PtrRead(h, c.ptr, index)}
    IN  IF n < index
        THEN {Out(c, h, <<>>, "insertion index", {})}
        ELSE IF build = "debug" /\ SubOverflows(c.len, ONE)
        THEN {Out(c, h, <<>>, "arithmetic overflow", {})}
        ELSE outs \cup Crashes(c, h, outs)

RECURSIVE extend_from_slice(_, _, _)
extend_from_slice(c, h, other) ==
    IF other = <<>>
    THEN {Out(c, h, <<>>, "ok", {})}
    ELSE UNION {IF o.status # "ok" THEN {o}
                ELSE {[r EXCEPT !.viol = @ \cup o.viol]
                      : r \in extend_from_slice(o.c, o.h, Tail(other))}
                : o \in push(c, h, Head(other))}

\* Drop for SmallerVec: pop every element, then dealloc
drop(c, h) ==
    IF c.cap # ZERO
    THEN LET pv == UNION {ReadViol(h, c.ptr, i) : i \in 0..(len(c) - 1)}
             outs == IF Live(h, c.ptr)
                     THEN {Out(Gone("dropped"), [h EXCEPT ![c.ptr] = UnusedBlock],
                               <<>>, "ok", pv)}
                     ELSE {Out(Gone("dropped"), h, <<>>, "ok", pv \cup {"double_free"})}
         IN  outs \cup Crashes(c, h, outs)
    ELSE {Out(Gone("dropped"), h, <<>>, "ok", {})}

\* Deref: the slice of the first len slots
deref(c, h) == [k \in 1..len(c) |-> Slot(h, c.ptr, k - 1)]

DerefViol(c, h) == UNION {ReadViol(h, c.ptr, i) : i \in 0..(len(c) - 1)}

\* derive(Clone): a field-wise copy
clone(c) == [st |-> "live", ptr |-> c.ptr, len |-> c.len, cap |-> c.cap]

----------------------------------------------------------------------------
(* IntoIter: lib.rs *)

NoIter == [st |-> "none", buf |-> Dangling, cap |-> 0, start |-> 0, end |-> 0]

\* start and end are kept as element offsets from buf
into_iter(c) ==
    [st |-> "live", buf |-> c.ptr, cap |-> as_usize(c.cap), start |-> 0,
     end |-> IF c.cap = ZERO THEN 0 ELSE as_usize(c.len)]

next_unguarded(i, h) ==
    LET outs == {Out([i EXCEPT !.start = @ + 1], MoveOut(h, i.buf, i.start),
                     <<r>>, "ok", ReadViol(h, i.buf, i.start))
                 : r \in PtrRead(h, i.buf, i.start)}
    IN  outs \cup Crashes(i, h, outs)

next(i, h) ==
    IF i.start = i.end
    THEN {Out(i, h, <<>>, "ok", {})}
    ELSE LET outs == {Out([i EXCEPT !.start = @ + 1], MoveOut(h, i.buf, i.start),
                          <<r>>, "ok", ReadViol(h, i.buf, i.start))
                      : r \in PtrRead(h, i.buf, i.start)}
         IN  outs \cup Crashes(i, h, outs)

size_hint(i) == <<i.end - i.start, i.end - i.start>>

\* mutant: the element is read before end is moved back
next_back_read_first(i, h) ==
    IF i.start = i.end
    THEN {Out(i, h, <<>>, "ok", {})}
    ELSE LET outs == {Out([i EXCEPT !.end = @ - 1], MoveOut(h, i.buf, i.end),
                          <<r>>, "ok", ReadViol(h, i.buf, i.end))
                      : r \in PtrRead(h, i.buf, i.end)}
         IN  outs \cup Crashes(i, h, outs)

next_back(i, h) ==
    IF i.start = i.end
    THEN {Out(i, h, <<>>, "ok", {})}
    ELSE LET e == i.end - 1
             outs == {Out([i EXCEPT !.end = e], MoveOut(h, i.buf, e),
                          <<r>>, "ok", ReadViol(h, i.buf, e))
                      : r \in PtrRead(h, i.buf, e)}
         IN  outs \cup Crashes(i, h, outs)

\* Drop for IntoIter: drain what is left with next, then dealloc
drop_iter(i, h) ==
    IF i.cap # 0
    THEN LET pv == UNION {ReadViol(h, i.buf, k) : k \in i.start..(i.end - 1)}
             gone == [NoIter EXCEPT !.st = "dropped"]
             outs == IF Live(h, i.buf)
                     THEN {Out(gone, [h EXCEPT ![i.buf] = UnusedBlock], <<>>, "ok", pv)}
                     ELSE {Out(gone, h, <<>>, "ok", pv \cup {"double_free"})}
         IN  outs \cup Crashes(i, h, outs)
    ELSE {Out([NoIter EXCEPT !.st = "dropped"], h, <<>>, "ok", {})}

----------------------------------------------------------------------------
(* The program: one action per operation of a caller *)

\* what the last operation was, its arguments, what it returned and how it
\* ended; oldlen and oldcap are the receiver's len and cap when it was called
Done(op, who, idx, val, o, before) ==
    [op |-> op, who |-> who, idx |-> idx, val |-> val, ret |-> o.ret,
     status |-> o.status, viol |-> o.viol,
     oldlen |-> before.len, oldcap |-> before.cap]


\* a crash ends the process; a panic unwinds and leaves the objects usable
Running == last.status # "crash"

IsLive(who) == vec[who].st = "live"

\* the handle p after a step that took the heap from h to h2
Sweep(p, h, h2) == IF Live(h, p) /\ ~Live(h2, p) THEN Stale ELSE p

Init ==
    /\ inst = [MAX |-> LimitMAX, size |-> SizeOfT]
    /\ build \in {"debug", "release"}
    /\ vec = [w \in Vecs |-> IF w = 1 THEN new ELSE Gone("none")]
    /\ it = NoIter
    /\ heap = [b \in Blocks |-> UnusedBlock]
    /\ last = Done("new", 1, 0, 0, Out(new, heap, <<>>, "ok", {}), new)

\* the process is gone: no object is left
Crash(op, who, idx, val, o, before) ==
    /\ vec' = [w \in Vecs |-> Gone("none")]
    /\ it' = NoIter
    /\ heap' = [b \in Blocks |-> UnusedBlock]
    /\ last' = Done(op, who, idx, val, o, before)
    /\ UNCHANGED <<inst, build>>

VecStep(op, who, idx, val, o) ==
    IF o.status = "crash"
    THEN Crash(op, who, idx, val, o, vec[who])
    ELSE /\ vec' = [w \in Vecs |->
                      IF w = who THEN o.c
                      ELSE [vec[w] EXCEPT !.ptr = Sweep(@, heap, o.h)]]
         /\ it' = [it EXCEPT !.buf = Sweep(@, heap, o.h)]
         /\ heap' = o.h
         /\ last' = Done(op, who, idx, val, o, vec[who])
         /\ UNCHANGED <<inst, build>>

Push(who, v) ==
    /\ Running /\ IsLive(who)
    /\ \E o \in push(vec[who], heap, v) : VecStep("push", who, 0, v, o)

Pop(who) ==
    /\ Running /\ IsLive(who)
    /\ \E o \in pop(vec[who], heap) : VecStep("pop", who, 0, 0, o)

Insert(who, index, v) ==
    /\ Running /\ IsLive(who)
    /\ \E o \in insert(vec[who], heap, index, v) : VecStep("insert", who, index, v, o)

Remove(who, index) ==
    /\ Running /\ IsLive(who)
    /\ \E o \in remove(vec[who], heap, index) : VecStep("remove", who, index, 0, o)

ExtendFromSlice(who, other) ==
    /\ Running /\ IsLive(who)
    /\ \E o \in extend_from_slice(vec[who], heap, other) :
          VecStep("extend_from_slice", who, 0, Len(other), o)

Deref(who) ==
    /\ Running /\ IsLive(who)
    /\ last' = Done("deref", who, 0, 0,
                    Out(vec[who], heap, <<>>, "ok", DerefViol(vec[who], heap)), vec[who])
    /\ UNCHANGED <<inst, build, vec, it, heap>>

Clone(who, to) ==
    /\ Running /\ IsLive(who) /\ vec[to].st = "none"
    /\ vec' = [vec EXCEPT ![to] = clone(vec[who])]
    /\ last' = Done("clone", who, 0, 0, Out(vec[who], heap, <<>>, "ok", {}), vec[who])
    /\ UNCHANGED <<inst, build, it, heap>>

DropVec(who) ==
    /\ Running /\ IsLive(who)
    /\ \E o \in drop(vec[who], heap) : VecStep("drop", who, 0, 0, o)

\* ManuallyDrop: the container is moved, its Drop never runs
IntoIterStep(who) ==
    /\ Running /\ IsLive(who) /\ it.st = "none"
    /\ it' = into_iter(vec[who])
    /\ vec' = [vec EXCEPT ![who] = Gone("moved")]
    /\ last' = Done("into_iter", who, 0, 0,
                    Out(vec[who], heap, <<>>, "ok", {}), vec[who])
    /\ UNCHANGED <<inst, build, heap>>

\* an operation of the iterator has who = 0
IterStep(op, o) ==
    IF o.status = "crash"
    THEN Crash(op, 0, 0, 0, o, [len |-> it.end - it.start, cap |-> it.cap])
    ELSE /\ it' = o.c
         /\ vec' = [w \in Vecs |-> [vec[w] EXCEPT !.ptr = Sweep(@, heap, o.h)]]
         /\ heap' = o.h
         /\ last' = Done(op, 0, 0, 0, o,
                         [len |-> it.end - it.start, cap |-> it.cap])
         /\ UNCHANGED <<inst, build>>

IterNext ==
    /\ Running /\ it.st = "live"
    /\ \E o \in next(it, heap) : IterStep("next", o)

IterNextBack ==
    /\ Running /\ it.st = "live"
    /\ \E o \in next_back(it, heap) : IterStep("next_back", o)

DropIter ==
    /\ Running /\ it.st = "live"
    /\ \E o \in drop_iter(it, heap) : IterStep("drop_iter", o)

\* index arguments are usize: they reach past Limit::MAX
Indexes == 0..(LimitMAX + 1)

\* one owner: every operation but clone
Next ==
    \/ \E who \in Vecs, v \in Values : Push(who, v)
    \/ \E who \in Vecs : Pop(who)
    \/ \E who \in Vecs, index \in Indexes, v \in Values : Insert(who, index, v)
    \/ \E who \in Vecs, index \in Indexes : Remove(who, index)
    \/ \E who \in Vecs, other \in Slices : ExtendFromSlice(who, other)
    \/ \E who \in Vecs : Deref(who)
    \/ \E who \in Vecs : DropVec(who)
    \/ \E who \in Vecs : IntoIterStep(who)
    \/ IterNext
    \/ IterNextBack
    \/ DropIter

Spec == Init /\ [][Next]_vars

\* the owner and a clone of it, pushing, popping, iterating and dropping
NextClone ==
    \/ \E who \in Vecs, to \in Vecs : Clone(who, to)
    \/ \E who \in Vecs, v \in Values : Push(who, v)
    \/ \E who \in Vecs : Pop(who)
    \/ \E who \in Vecs : DropVec(who)
    \/ \E who \in Vecs : IntoIterStep(who)
    \/ IterNext
    \/ IterNextBack
    \/ DropIter

SpecClone == Init /\ [][NextClone]_vars

\* Limit = u8
U8MAX == 255
\* element sizes on both sides of the thresholds of FIRST_ALLOC_SIZE
ElemSizes == {1, 2, 1024, 1025}

\* SmallerVec::<T, u8>::new() for an element type of each size
InitU8 ==
    /\ inst \in {[MAX |-> U8MAX, size |-> s] : s \in ElemSizes}
    /\ build \in {"debug", "release"}
    /\ vec = [w \in Vecs |-> IF w = 1 THEN new ELSE Gone("none")]
    /\ it = NoIter
    /\ heap = [b \in Blocks |-> UnusedBlock]
    /\ last = Done("new", 1, 0, 0, Out(new, heap, <<>>, "ok", {}), new)

\* a run of pushes of one element value
NextU8 == \E who \in Vecs : Push(who, 1)

SpecU8 == InitU8 /\ [][NextU8]_vars

----------------------------------------------------------------------------
(* Properties *)

\* the container holds the sequence deref(c, h): its first len slots are
\* initialized elements of its own live block
WellFormed(c, h) ==
    /\ c.len <= c.cap
    /\ c.cap = ZERO \/ (Live(h, c.ptr) /\ Size(h, c.ptr) >= c.cap)
    /\ \A k \in 1..len(c) : deref(c, h)[k] # Uninit

LiveVecs == {w \in Vecs : IsLive(w)}

\* C1: in every reachable state 0 <= len <= cap <= MAX holds of every live
\* container; len never wraps around or exceeds cap.
C1_LenCapInvariant ==
    \A w \in LiveVecs :
        /\ 0 <= vec[w].len
        /\ vec[w].len <= vec[w].cap
        /\ vec[w].cap <= LimitMAX

\* C2: every operation reads only initialized live slots and touches only
\* slots inside the current allocation; none dereferences the sentinel.
C2_MemorySafe == last.viol = {}

\* C3: no allocation is released twice, and none is released while another
\* live container or iterator still holds its handle.
C3_ReleasedExactlyOnce ==
    /\ "double_free" \notin last.viol
    /\ \A w \in LiveVecs : vec[w].ptr # Stale
    /\ it.st = "live" => it.buf # Stale

\* C4: insert(i, v) followed by remove(i) returns v and leaves len and the
\* element sequence as they were, for every index i <= len.
C4_InsertRemoveRoundTrip ==
    \A w \in LiveVecs : \A i \in 0..len(vec[w]) : \A v \in Values :
        \A o1 \in insert(vec[w], heap, i, v) :
            o1.status = "ok" =>
                \A o2 \in remove(o1.c, o1.h, i) :
                    o2.status = "ok" =>
                        /\ o2.ret = <<v>>
                        /\ o2.c.len = vec[w].len
                        /\ deref(o2.c, o2.h) = deref(vec[w], heap)

\* C5: with len < MAX, push(v) immediately followed by pop() returns Some(v),
\* restores len and leaves the elements in [0, len) unchanged.
C5_StackLaw ==
    \A w \in LiveVecs : \A v \in Values :
        vec[w].len < LimitMAX =>
            \A o1 \in push(vec[w], heap, v) :
                /\ o1.status = "ok"
                /\ \A o2 \in pop(o1.c, o1.h) :
                      /\ o2.status = "ok"
                      /\ o2.ret = <<v>>
                      /\ o2.c.len = vec[w].len
                      /\ deref(o2.c, o2.h) = deref(vec[w], heap)

\* the calls of a drain: every sequence of n calls of next and next_back
Schedules(n) == [1..n -> {"next", "next_back"}]

\* what the calls of sched return, one after the other, from iterator i
RECURSIVE Drain(_, _, _)
Drain(i, h, sched) ==
    IF sched = <<>>
    THEN {<<>>}
    ELSE UNION {{<<[status |-> o.status, ret |-> o.ret]>> \o t
                 : t \in Drain(o.c, o.h, Tail(sched))}
                : o \in IF Head(sched) = "next" THEN next(i, h) ELSE next_back(i, h)}

\* what they are to return for the sequence s, f elements having been taken
\* from the front and b from the back
RECURSIVE Expected(_, _, _, _)
Expected(s, sched, f, b) ==
    IF sched = <<>>
    THEN <<>>
    ELSE IF f + b = Len(s)
    THEN <<[status |-> "ok", ret |-> <<>>]>> \o Expected(s, Tail(sched), f, b)
    ELSE IF Head(sched) = "next"
    THEN <<[status |-> "ok", ret |-> <<s[f + 1]>>]>> \o Expected(s, Tail(sched), f + 1, b)
    ELSE <<[status |-> "ok", ret |-> <<s[Len(s) - b]>>]>> \o Expected(s, Tail(sched), f, b + 1)

\* C6: the iterator of a container holding e_0..e_(n-1), drained by any
\* interleaving of next and next_back, yields each element once: the k-th
\* next returns e_(k-1), the k-th next_back returns e_(n-k), and after n
\* elements both report exhaustion (also for n = 0 and cap = 0).
C6_IteratorCompleteness ==
    \A w \in LiveVecs :
        WellFormed(vec[w], heap) =>
            \A sched \in Schedules(len(vec[w]) + 2) :
                Drain(into_iter(vec[w]), heap, sched)
                    = {Expected(deref(vec[w], heap), sched, 0, 0)}

\* an iterator drained from the front has just yielded its last element
\* from the back
C6_Witness ==
    /\ it.st = "live" /\ it.cap > 0
    /\ it.start = it.end /\ it.start >= 1
    /\ last.op = "next_back" /\ last.oldlen = 1
    /\ last.ret # <<>> /\ last.status = "ok" /\ last.viol = {}

Doubled(cap) == IF cap + cap > LimitMAX THEN LimitMAX ELSE cap + cap

\* the capacities k growths lead to from cap
RECURSIVE GrownBy(_, _)
GrownBy(cap, k) ==
    IF k = 0 THEN {cap} ELSE {cap} \cup GrownBy(Doubled(cap), k - 1)

\* C7: the cap of a live container never decreases, and a growth from a
\* nonzero capacity c sets it to min(2c, MAX) (extend_from_slice grows once
\* per element it pushes).
C7_GrowthMonotonic ==
    [][\A w \in Vecs :
          (vec[w].st = "live" /\ vec'[w].st = "live") =>
              /\ vec'[w].cap >= vec[w].cap
              /\ vec[w].cap # ZERO =>
                    vec'[w].cap \in GrownBy(vec[w].cap,
                                           IF last'.op = "extend_from_slice"
                                           THEN last'.val ELSE 1)]_vars

\* a push or insert has just grown a nonzero capacity
C7_Witness ==
    /\ last.op \in {"push", "insert"} /\ last.status = "ok"
    /\ last.oldcap # ZERO
    /\ vec[last.who].cap = Doubled(last.oldcap)
    /\ vec[last.who].cap > last.oldcap

CapacityOverflow(c, h) == {Out(c, h, <<>>, "capacity overflow", {})}

\* C8: with len = cap = MAX, push and insert end in the capacity-overflow
\* panic and nothing else: no value is written, len and cap are unchanged.
C8_CapacityOverflow ==
    \A w \in LiveVecs :
        (vec[w].len = LimitMAX /\ vec[w].cap = LimitMAX) =>
            \A v \in Values :
                /\ push(vec[w], heap, v) = CapacityOverflow(vec[w], heap)
                /\ \A i \in Indexes :
                      insert(vec[w], heap, i, v) = CapacityOverflow(vec[w], heap)

\* an insert into a full container of MAX elements has just panicked
C8_Witness ==
    /\ last.op = "insert" /\ last.status = "capacity overflow"
    /\ vec[last.who].len = LimitMAX /\ vec[last.who].cap = LimitMAX
    /\ WellFormed(vec[last.who], heap)

\* C9: with len < MAX, insert(len, v) succeeds and does what push(v) does;
\* insert(i, v) with i > len never returns normally.
C9_InsertBoundary ==
    \A w \in LiveVecs : \A v \in Values :
        /\ vec[w].len < LimitMAX =>
              /\ insert(vec[w], heap, len(vec[w]), v) = push(vec[w], heap, v)
              /\ \A o \in insert(vec[w], heap, len(vec[w]), v) : o.status = "ok"
        /\ \A i \in Indexes :
              i > len(vec[w]) =>
                  \A o \in insert(vec[w], heap, i, v) : o.status # "ok"

\* C10: remove(index) with index >= len is fatal, returns no element and
\* leaves len unchanged.
C10_RemovePastEnd ==
    \A w \in LiveVecs : \A i \in Indexes :
        i >= len(vec[w]) =>
            \A o \in remove(vec[w], heap, i) :
                /\ o.status # "ok"
                /\ o.ret = <<>>
                /\ o.c.len = vec[w].len

----------------------------------------------------------------------------
\* C11: len is the net count of successful calls: each push or insert that
\* returns normally adds exactly one to len, each pop or remove that returns an
\* element takes exactly one away, and a pop on an empty container or a call
\* that fails fatally leaves len as it is.
C11_LengthAccounting ==
    \A w \in LiveVecs :
        LET c == vec[w] IN
        /\ \A v \in Values : \A o \in push(c, heap, v) :
              o.status # "crash" =>
                  len(o.c) = len(c) + (IF o.status = "ok" THEN 1 ELSE 0)
        /\ \A i \in Indexes, v \in Values : \A o \in insert(c, heap, i, v) :
              o.status # "crash" =>
                  len(o.c) = len(c) + (IF o.status = "ok" THEN 1 ELSE 0)
        /\ \A o \in pop(c, heap) :
              o.status # "crash" => len(o.c) = len(c) - Len(o.ret)
        /\ \A i \in Indexes : \A o \in remove(c, heap, i) :
              o.status # "crash" => len(o.c) = len(c) - Len(o.ret)

\* C12: pop on an empty container (cap == 0 or cap > 0) returns the empty
\* result, is not fatal, and leaves len, cap and the allocation unchanged; pop
\* on a non-empty container returns the element at index len - 1 and
\* decrements len by exactly one.
C12_PopResult ==
    \A w \in LiveVecs :
        LET c == vec[w] IN
        \A o \in pop(c, heap) :
            IF c.len = ZERO
            THEN o = Out(c, heap, <<>>, "ok", {})
            ELSE /\ o.status = "ok"
                 /\ o.ret = <<Slot(heap, c.ptr, len(c) - 1)>>
                 /\ o.ret # <<Uninit>>
                 /\ len(o.c) = len(c) - 1
                 /\ o.c.cap = c.cap /\ o.c.ptr = c.ptr

\* C13: the first growth from cap == 0 sets cap to 8 when the element size is
\* 1 byte, to 4 when it is above 1 and at most 1024 bytes, and to 1 otherwise;
\* with the 8-bit width and 1-byte elements, pushes 1 to 8 leave cap at 8, the
\* 9th push sets cap to 16, and the later growths give 32, 64, 128 and 255.
C13_InitialCapacity ==
    \A w \in LiveVecs :
        LET n == len(vec[w])
            cap == capacity(vec[w])
        IN  /\ (last.op = "push" /\ last.who = w /\ last.oldcap = 0 /\ last.status = "ok") =>
                  cap = (IF inst.size = 1 THEN 8 ELSE IF inst.size <= 1024 THEN 4 ELSE 1)
            /\ (inst.MAX = U8MAX /\ inst.size = 1 /\ n >= 1) =>
                  cap = (IF n <= 8 THEN 8
                         ELSE IF n <= 16 THEN 16
                         ELSE IF n <= 32 THEN 32
                         ELSE IF n <= 64 THEN 64
                         ELSE IF n <= 128 THEN 128
                         ELSE 255)

C13_Witness ==
    /\ inst.MAX = U8MAX /\ inst.size = 1
    /\ last.op = "push" /\ last.status = "ok" /\ last.oldlen = 8 /\ last.oldcap = 8
    /\ IsLive(1) /\ len(vec[1]) = 9 /\ capacity(vec[1]) = 16

\* C14: in every reachable state with contents s, for every i <= len with
\* len < MAX, insert(i, v) returns normally and leaves the contents
\* s[0..i) ++ [v] ++ s[i..len) with len increased by one, also when the call
\* had to grow the allocation.
C14_InsertResult ==
    \A w \in LiveVecs :
        LET c == vec[w]
            s == deref(c, heap)
        IN  c.len < inst.MAX =>
                \A i \in 0..len(c), v \in Values :
                    \A o \in insert(c, heap, i, v) :
                        /\ o.status = "ok"
                        /\ len(o.c) = len(c) + 1
                        /\ deref(o.c, o.h) =
                               SubSeq(s, 1, i) \o <<v>> \o SubSeq(s, i + 1, len(c))

\* C15: in every reachable state with contents s, for every i < len,
\* remove(i) returns s[i] and leaves the contents s[0..i) ++ s[i+1..len) with
\* len decreased by one and cap unchanged.
C15_RemoveResult ==
    \A w \in LiveVecs :
        LET c == vec[w]
            s == deref(c, heap)
        IN  \A i \in 0..(len(c) - 1) :
                \A o \in remove(c, heap, i) :
                    /\ o.status = "ok"
                    /\ o.ret = <<s[i + 1]>>
                    /\ len(o.c) = len(c) - 1
                    /\ o.c.cap = c.cap
                    /\ deref(o.c, o.h) = SubSeq(s, 1, i) \o SubSeq(s, i + 2, len(c))

\* the handle of a live container is the sentinel exactly when its cap is 0
HandleMatchesCap == \A w \in LiveVecs : (vec[w].cap = ZERO) <=> (vec[w].ptr = Dangling)

\* a live container never goes back to cap == 0
StaysAllocated ==
    \A w \in Vecs :
        (IsLive(w) /\ vec[w].cap # ZERO /\ vec'[w].st = "live") => vec'[w].cap # ZERO

\* a push or insert that returns normally on an unallocated container allocates
FirstPushAllocates ==
    \A w \in Vecs :
        (/\ IsLive(w) /\ vec[w].cap = ZERO
         /\ last'.who = w /\ last'.op \in {"push", "insert"} /\ last'.status = "ok")
        => (vec'[w].cap # ZERO /\ Live(heap', vec'[w].ptr))

\* destroying an unallocated container leaves the allocator alone
DropUnallocated ==
    \A w \in Vecs :
        (IsLive(w) /\ vec[w].cap = ZERO /\ last'.who = w /\ last'.op = "drop")
        => (heap' = heap /\ last'.viol = {})

\* C16: a live container has cap == 0 if and only if it owns no allocation
\* (its handle is the sentinel); new() allocates nothing; the first push or
\* insert takes the container from unallocated to allocated; no operation on
\* a live container takes it back to cap == 0; and constructing a container
\* and destroying it at once neither allocates nor deallocates.
C16_AllocationStateMachine ==
    [][/\ HandleMatchesCap /\ HandleMatchesCap'
       /\ (last.op = "new" => \A b \in Blocks : ~Live(heap, b))
       /\ StaysAllocated
       /\ FirstPushAllocates
       /\ DropUnallocated]_vars

\* how many slots of s hold x
Count(s, x) == Cardinality({k \in 1..Len(s) : s[k] = x})

\* the elements between start and end of the iterator, not yet yielded
Remaining(i, h) == [k \in 1..(i.end - i.start) |-> Slot(h, i.buf, i.start + k - 1)]

\* the slots of before are the slots of after and the one of ret, if any
HandsOut(before, ret, after) ==
    /\ \A x \in Values : Count(before, x) = Count(after, x) + Count(ret, x)
    /\ Count(before, Uninit) = 0 /\ Count(after, Uninit) = 0

\* C17: every element placed in the container by push or insert is either
\* handed to the caller exactly once (by pop, remove, next or next_back) or
\* destroyed exactly once (when the container is destroyed, or when the
\* iterator is destroyed for the elements not yet yielded), never both, never
\* twice and never leaked; destroying the iterator releases the allocation
\* exactly when the original capacity was not zero.
C17_ElementOwnership ==
    /\ \A w \in LiveVecs :
          LET c == vec[w]
              s == deref(c, heap)
          IN  /\ \A v \in Values : \A o \in push(c, heap, v) :
                    o.status = "ok" => HandsOut(deref(o.c, o.h), <<v>>, s)
              /\ \A i \in Indexes, v \in Values : \A o \in insert(c, heap, i, v) :
                    o.status = "ok" => HandsOut(deref(o.c, o.h), <<v>>, s)
              /\ \A o \in pop(c, heap) :
                    o.status = "ok" => HandsOut(s, o.ret, deref(o.c, o.h))
              /\ \A i \in Indexes : \A o \in remove(c, heap, i) :
                    o.status = "ok" => HandsOut(s, o.ret, deref(o.c, o.h))
              /\ \A o \in drop(c, heap) :
                    o.status = "ok" =>
                        /\ o.viol = {}
                        /\ c.cap # ZERO => ~Live(o.h, c.ptr)
    /\ it.st = "live" =>
          /\ \A o \in next(it, heap) \cup next_back(it, heap) :
                o.status = "ok" => HandsOut(Remaining(it, heap), o.ret, Remaining(o.c, o.h))
          /\ \A o \in drop_iter(it, heap) :
                o.status = "ok" =>
                    /\ o.viol = {}
                    /\ IF it.cap # 0 THEN ~Live(o.h, it.buf) ELSE o.h = heap

\* C18: the iterator of a container with n live elements reports, after j
\* successful next and k successful next_back calls in any order, a remaining
\* count end - start of exactly n - j - k as both its lower and its upper
\* bound; the count never goes negative and start <= end in every iterator
\* state.  (The count is n at creation and each successful call takes one off.)
C18_RemainingCount ==
    [][/\ (last'.op = "into_iter" /\ WellFormed(vec[last'.who], heap)) =>
              size_hint(it') = <<len(vec[last'.who]), len(vec[last'.who])>>
       /\ (it.st = "live" /\ last'.op \in {"next", "next_back"} /\ last'.status = "ok") =>
              /\ size_hint(it') = <<size_hint(it)[1] - Len(last'.ret),
                                    size_hint(it)[2] - Len(last'.ret)>>
              /\ (last'.ret = <<>>) <=> (size_hint(it)[1] = 0)
       /\ it'.st = "live" =>
              /\ it'.start <= it'.end
              /\ size_hint(it')[1] = it'.end - it'.start
              /\ size_hint(it')[2] = it'.end - it'.start
              /\ size_hint(it')[1] >= 0]_vars

\* three elements, one yielded from the front, then one from the back
C18_Witness ==
    /\ it.st = "live" /\ it.start = 1 /\ it.end = 2
    /\ size_hint(it) = <<1, 1>>
    /\ last.op = "next_back" /\ last.oldlen = 2 /\ last.ret # <<>>
    /\ last.status = "ok" /\ last.viol = {}

\* C19: insert(i, v) with i > len fails with the index precondition and has
\* no side effect: len, cap, the allocation and the elements are as before
\* the call (no growth was performed), and the failure is not capacity
\* overflow, whether or not len == cap.
C19_FatalInsertNoEffect ==
    \A w \in LiveVecs :
        \A i \in Indexes, v \in Values :
            i > len(vec[w]) =>
                insert(vec[w], heap, i, v)
                    = {Out(vec[w], heap, <<>>, "insertion index", {})}

\* C20: on every call path of push, pop, insert and remove from every
\* reachable state, each unchecked add(ONE) is applied to a value below MAX
\* and each unchecked sub(ONE) to a value above 0, so that no call panics on
\* the arithmetic (debug build) or wraps len (release build).
C20_ArithmeticInRange ==
    \A w \in LiveVecs :
        LET c == vec[w]
            grown == IF c.len = c.cap THEN grow(c, heap)
                     ELSE {Out(c, heap, <<>>, "ok", {})}
        IN  \* push: add(ONE) on len once room was made
            /\ \A g \in grown : g.status = "ok" => ~AddOverflows(g.c.len, ONE)
            /\ \A v \in Values : \A o \in push(c, heap, v) :
                  o.status # "arithmetic overflow"
            \* insert: the same add, past the index check
            /\ \A i \in Indexes, v \in Values : \A o \in insert(c, heap, i, v) :
                  o.status # "arithmetic overflow"
            \* pop: sub(ONE) on len when len is not 0
            /\ c.len # ZERO => ~SubOverflows(c.len, ONE)
            \* remove: sub(ONE) on len past the index check
            /\ \A i \in Indexes : ~(len(c) < i) => ~SubOverflows(c.len, ONE)
            /\ \A i \in Indexes : \A o \in remove(c, heap, i) :
                  o.status # "arithmetic overflow"

====
